---- MODULE Spec2Model ----
(***************************************************************************)
(* Model of src/src/playwright_mcp_databricks/app.py: the streaming proxy  *)
(* handle_sse_connection, which resolves cli.js, spawns `node cli.js ...`  *)
(* with three pipes and relays the child's stdout, line by line, to a      *)
(* StreamingResponse; the try/finally of stream_response is the guard.     *)
(*                                                                         *)
(* The coroutines run on one event loop: the code between two awaits is    *)
(* one atomic step.  The suspension points are the await of the spawn      *)
(* (line 81), the await of readline (line 93), the yield (line 96) and the *)
(* await of process.wait() (line 101).  The child process, the HTTP layer  *)
(* that drains the body iterator, and the loop's child watcher are the     *)
(* environment; their steps are actions of their own.                      *)
(***************************************************************************)
EXTENDS Integers, Sequences, FiniteSets, TLC

\* ------------------------------------------------------------------ bounds
MaxLines == 2
StderrCap == 1
MaxBody == 1
MaxDirs == 5

\* two concurrent sessions, numbered in the order their requests arrive, and the pids
\* their children can get
Sessions == {1, 2}
Pids == 1..Cardinality(Sessions)
NoPid == 0

VARIABLES
    pc,         \* per session: where the handling task is
    how,        \* per session: the way the relay loop was left
    proc,       \* per session: the closure variable `process` (a pid, NoPid before the spawn)
    script,     \* per session: whether a file exists at the resolved cli_path
    canRun,     \* per session: whether the OS could start the interpreter when asked to
    body,       \* per session: the bytes of the request body
    delivered,  \* per session: the chunks yielded to the StreamingResponse, in order
    reads,      \* per session: the number of readline() calls that returned
    guard,      \* per session: the steps of the finally block taken so far
    termAt,     \* per session: the state the child was in when terminate() was called ("" if never)
    cancels,    \* per session: the number of cancellations delivered to the task
    cstate,     \* per pid: "none", "running", "zombie" (exited, returncode still None), "reaped"
    outOpen,    \* per pid: the child still holds its stdout open
    written,    \* per pid: every line the child wrote to stdout, in order
    rpos,       \* per pid: how many of those lines were consumed from the pipe
    errFill,    \* per pid: units buffered in the stderr pipe (StderrCap + 1: child blocked writing)
    stdinRecv,  \* per pid: the bytes that arrived on the child's stdin
    sigs,       \* per pid: SIGTERMs delivered to the child while it was running
    nextPid,    \* the pid the next spawned child gets
    fsDefault,  \* resolution run: the default path exists
    fsDirs,     \* resolution run: for each sys.path entry, whether it holds cli.js
    rPc,        \* resolution run: "off", "start" (before line 60) or "done" (after line 68)
    rCli,       \* resolution run: the local variable cli_path
    req,        \* routing run, per session: the <<verb, path>> of its request
    cliPath,    \* routing run, per session: the local variable cli_path after line 68
    argv,       \* routing run, per session: the arguments of create_subprocess_exec
    spawns,     \* routing run, per session: the number of create_subprocess_exec calls
    health      \* routing run: the last reply of /health, with the children alive then

sessVars == <<pc, how, proc, script, canRun, body, delivered, reads, guard, termAt, cancels>>
childVars == <<cstate, outOpen, written, rpos, errFill, stdinRecv, sigs, nextPid>>
resVars == <<fsDefault, fsDirs, rPc, rCli>>
reqVars == <<req, cliPath, argv, spawns, health>>
vars == <<sessVars, childVars, resVars, reqVars>>

\* ------------------------------------------------------- executable resolution
\* Path(__file__).parent.parent.parent / "cli.js"
DefaultPath == <<0, "cli.js">>

\* Path(path) / "cli.js" for the i-th entry of sys.path
DirPath(i) == <<i, "cli.js">>

DirLists == UNION {[1..n -> BOOLEAN] : n \in 0..MaxDirs}

\* Path.exists() on the file system (de: the default path exists; dirs[i]: entry i holds cli.js)
Exists(path, de, dirs) ==
    IF path = DefaultPath THEN de
    ELSE path[1] \in 1..Len(dirs) /\ dirs[path[1]]

\* the for loop without the break of line 68: the last entry that holds the file wins
RECURSIVE ScanNoBreak(_, _, _)
ScanNoBreak(i, de, dirs) ==
    IF i > Len(dirs) THEN DefaultPath
    ELSE LET rest == ScanNoBreak(i + 1, de, dirs)
         IN  IF rest # DefaultPath THEN rest
             ELSE IF Exists(DirPath(i), de, dirs) THEN DirPath(i) ELSE DefaultPath

\* the for loop of lines 64-68 from entry i on: the first entry that holds the file wins
RECURSIVE ScanFrom(_, _, _)
ScanFrom(i, de, dirs) ==
    IF i > Len(dirs) THEN DefaultPath
    ELSE IF Exists(DirPath(i), de, dirs) THEN DirPath(i)
    ELSE ScanFrom(i + 1, de, dirs)

\* lines 60-68 as one function
ResolveCli(de, dirs) ==
    IF Exists(DefaultPath, de, dirs) THEN DefaultPath ELSE ScanFrom(1, de, dirs)

\* a command line without the flag that turns the sandbox off
CmdSandboxed(cli) == <<"node", cli, "--headless", "--browser", "chromium", "--port", "0">>

\* lines 72-79
Cmd(cli) == <<"node", cli, "--headless", "--browser", "chromium", "--no-sandbox", "--port", "0">>

\* the request body a client sends: MaxBody bytes (the handler never looks at the body,
\* so bodies of other lengths add no behaviour of their own)
Bodies == {[i \in 1..MaxBody |-> "x"]}

\* ------------------------------------------------------------------ initial state
SessInit ==
    /\ pc = [s \in Sessions |-> "idle"]
    /\ how = [s \in Sessions |-> "none"]
    /\ proc = [s \in Sessions |-> NoPid]
    /\ script = [s \in Sessions |-> FALSE]
    /\ canRun = [s \in Sessions |-> FALSE]
    /\ body = [s \in Sessions |-> <<>>]
    /\ delivered = [s \in Sessions |-> <<>>]
    /\ reads = [s \in Sessions |-> 0]
    /\ guard = [s \in Sessions |-> <<>>]
    /\ termAt = [s \in Sessions |-> ""]
    /\ cancels = [s \in Sessions |-> 0]

ChildInit ==
    /\ cstate = [p \in Pids |-> "none"]
    /\ outOpen = [p \in Pids |-> FALSE]
    /\ written = [p \in Pids |-> <<>>]
    /\ rpos = [p \in Pids |-> 0]
    /\ errFill = [p \in Pids |-> 0]
    /\ stdinRecv = [p \in Pids |-> <<>>]
    /\ sigs = [p \in Pids |-> 0]
    /\ nextPid = 1

ReqInit ==
    /\ req = [s \in Sessions |-> <<>>]
    /\ cliPath = [s \in Sessions |-> <<>>]
    /\ argv = [s \in Sessions |-> <<>>]
    /\ spawns = [s \in Sessions |-> 0]
    /\ health = <<>>

Init ==
    /\ SessInit
    /\ ChildInit
    /\ ReqInit
    /\ fsDefault = FALSE
    /\ fsDirs = <<>>
    /\ rPc = "off"
    /\ rCli = DefaultPath

\* ------------------------------------------------------------------ the handler
\* the handle a module-level `process` would give: the child spawned last
HandleShared(s) == nextPid - 1

\* the process object the generator's closure refers to (line 81, used at 93 and 99-101)
Handle(s) == proc[s]

\* process.returncode: set by the loop's child watcher once it has collected the exit status
ReturnCode(p) == IF cstate[p] = "reaped" THEN "set" ELSE "None"

\* a spawn that starts the script itself instead of the interpreter
SpawnStartsScript(cmd, runnable) == cmd[2] \in runnable

\* asyncio.create_subprocess_exec(*cmd, ...) starts cmd[1]; the rest of cmd is the
\* child's argument list and is not looked at by the spawn (runnable: what the OS can start)
SpawnSucceeds(cmd, runnable) == cmd[1] \in runnable

\* lines 58-86 and 103-110 on the file system (de, dirs), with the OS able to start
\* `runnable`: resolve cli.js, build cmd, spawn, return the StreamingResponse around the
\* generator (created, not started).  The request, body b included, is never read.
Launch(s, de, dirs, runnable, b) ==
    LET cli == ResolveCli(de, dirs)
    IN  /\ body' = [body EXCEPT ![s] = b]
        /\ script' = [script EXCEPT ![s] = Exists(cli, de, dirs)]
        /\ canRun' = [canRun EXCEPT ![s] = "node" \in runnable]
        /\ IF SpawnSucceeds(Cmd(cli), runnable)
           THEN /\ pc' = [pc EXCEPT ![s] = "created"]
                /\ proc' = [proc EXCEPT ![s] = nextPid]
                /\ cstate' = [cstate EXCEPT ![nextPid] = "running"]
                /\ outOpen' = [outOpen EXCEPT ![nextPid] = TRUE]
                /\ nextPid' = nextPid + 1
           ELSE /\ pc' = [pc EXCEPT ![s] = "error"]
                /\ UNCHANGED <<proc, cstate, outOpen, nextPid>>
        /\ UNCHANGED <<how, delivered, reads, guard, termAt, cancels>>
        /\ UNCHANGED <<written, rpos, errFill, stdinRecv, sigs>>

\* a request on one of the streaming routes is handled (lines 113-130 call
\* handle_sse_connection).  Sessions are numbered in the order their requests arrive.
Accept(s) ==
    /\ pc[s] = "idle"
    /\ \A t \in Sessions : t < s => pc[t] # "idle"
    /\ \E de \in BOOLEAN, dirs \in DirLists, runnable \in SUBSET {"node"}, b \in Bodies :
         Launch(s, de, dirs, runnable, b)
    /\ UNCHANGED resVars
    /\ UNCHANGED reqVars

\* the first __anext__ of the body iterator: the generator enters the try (line 90)
\* and suspends in readline (line 93)
Start(s) ==
    /\ pc[s] = "created"
    /\ pc' = [pc EXCEPT ![s] = "reading"]
    /\ UNCHANGED <<how, proc, script, canRun, body, delivered, reads, guard, termAt, cancels>>
    /\ UNCHANGED childVars
    /\ UNCHANGED resVars
    /\ UNCHANGED reqVars

\* a guard that signals whatever the returncode
AlwaysTerminate(rc) == TRUE

\* a guard that never signals nor waits
NeverTerminate(rc) == FALSE

\* line 99: the guard signals only a child whose returncode is still None
MustTerminate(rc) == rc = "None"

\* lines 99-101: the steps of the finally block, the await of process.wait() inside the if
GuardSteps(rc) ==
    <<IF rc = "None" THEN "check_none" ELSE "check_exited">>
        \o (IF MustTerminate(rc) THEN <<"terminate", "wait">> ELSE <<>>)

\* process.terminate(): SIGTERM reaches the child only if it is still running
\* (a zombie is found exited by the poll that precedes the kill)
Terminate(p) == [sigs EXCEPT ![p] = IF cstate[p] = "running" THEN @ + 1 ELSE @]

\* lines 97-101, entered by way h: runs to the await of process.wait() or to the end
RunGuard(s, h) ==
    LET p == Handle(s)
        steps == GuardSteps(ReturnCode(p))
        term == \E i \in 1..Len(steps) : steps[i] = "terminate"
    IN  /\ how' = [how EXCEPT ![s] = h]
        /\ guard' = [guard EXCEPT ![s] = @ \o steps]
        /\ termAt' = [termAt EXCEPT ![s] = IF term THEN cstate[p] ELSE @]
        /\ sigs' = IF term THEN Terminate(p) ELSE sigs
        /\ pc' = [pc EXCEPT ![s] = IF steps[Len(steps)] = "wait" THEN "waiting" ELSE "done"]

\* a read that returns the first line of the stream again
FirstLineAgain(s) == written[Handle(s)][1]

\* line 93: the line readline returns, the next unread line of the child's stdout
NextLine(s) == written[Handle(s)][rpos[Handle(s)] + 1]

\* a relay that reads on while the response still holds the chunk before: the line
\* read then is kept back instead of being yielded
ReadAhead(s) ==
    /\ pc[s] \in {"reading", "yielded"}
    /\ rpos[Handle(s)] < Len(written[Handle(s)])
    /\ delivered' = [delivered EXCEPT ![s] = IF pc[s] = "reading" THEN Append(@, NextLine(s)) ELSE @]
    /\ rpos' = [rpos EXCEPT ![Handle(s)] = @ + 1]
    /\ reads' = [reads EXCEPT ![s] = @ + 1]
    /\ pc' = [pc EXCEPT ![s] = "yielded"]
    /\ UNCHANGED <<how, proc, script, canRun, body, guard, termAt, cancels>>
    /\ UNCHANGED <<cstate, outOpen, written, errFill, stdinRecv, sigs, nextPid>>
    /\ UNCHANGED resVars
    /\ UNCHANGED reqVars

\* lines 93-96: readline returns a line, which is yielded to the response
ReadLine(s) ==
    /\ pc[s] = "reading"
    /\ rpos[Handle(s)] < Len(written[Handle(s)])
    /\ delivered' = [delivered EXCEPT ![s] = Append(@, NextLine(s))]
    /\ rpos' = [rpos EXCEPT ![Handle(s)] = @ + 1]
    /\ reads' = [reads EXCEPT ![s] = @ + 1]
    /\ pc' = [pc EXCEPT ![s] = "yielded"]
    /\ UNCHANGED <<how, proc, script, canRun, body, guard, termAt, cancels>>
    /\ UNCHANGED <<cstate, outOpen, written, errFill, stdinRecv, sigs, nextPid>>
    /\ UNCHANGED resVars
    /\ UNCHANGED reqVars

\* a read that gives up on a child that has nothing to say: the loop is left as at
\* end-of-stream although stdout is still open
ReadIdleTimeout(s) ==
    /\ pc[s] = "reading"
    /\ rpos[Handle(s)] = Len(written[Handle(s)])
    /\ reads' = [reads EXCEPT ![s] = @ + 1]
    /\ RunGuard(s, "eof")
    /\ UNCHANGED <<proc, script, canRun, body, delivered, cancels>>
    /\ UNCHANGED <<cstate, outOpen, written, rpos, errFill, stdinRecv, nextPid>>
    /\ UNCHANGED resVars
    /\ UNCHANGED reqVars

\* lines 93-95 and 97-101: readline returns b"" (stdout closed and drained), break, guard
ReadEOF(s) ==
    /\ pc[s] = "reading"
    /\ rpos[Handle(s)] = Len(written[Handle(s)])
    /\ ~outOpen[Handle(s)]
    /\ reads' = [reads EXCEPT ![s] = @ + 1]
    /\ RunGuard(s, "eof")
    /\ UNCHANGED <<proc, script, canRun, body, delivered, cancels>>
    /\ UNCHANGED <<cstate, outOpen, written, rpos, errFill, stdinRecv, nextPid>>
    /\ UNCHANGED resVars
    /\ UNCHANGED reqVars

\* line 93 raises: the exception leaves the loop through the finally block
ReadFail(s) ==
    /\ pc[s] = "reading"
    /\ RunGuard(s, "error")
    /\ UNCHANGED <<proc, script, canRun, body, delivered, reads, cancels>>
    /\ UNCHANGED <<cstate, outOpen, written, rpos, errFill, stdinRecv, nextPid>>
    /\ UNCHANGED resVars
    /\ UNCHANGED reqVars

\* line 96: the HTTP layer has taken the chunk and asks for the next one
Resume(s) ==
    /\ pc[s] = "yielded"
    /\ pc' = [pc EXCEPT ![s] = "reading"]
    /\ UNCHANGED <<how, proc, script, canRun, body, delivered, reads, guard, termAt, cancels>>
    /\ UNCHANGED childVars
    /\ UNCHANGED resVars
    /\ UNCHANGED reqVars

\* client disconnect or server shutdown before the body iterator was started:
\* the generator never entered its try, so closing it runs none of lines 90-101
CancelUnstarted(s) ==
    /\ pc[s] = "created"
    /\ pc' = [pc EXCEPT ![s] = "done"]
    /\ how' = [how EXCEPT ![s] = "cancel"]
    /\ cancels' = [cancels EXCEPT ![s] = @ + 1]
    /\ UNCHANGED <<proc, script, canRun, body, delivered, reads, guard, termAt>>
    /\ UNCHANGED childVars
    /\ UNCHANGED resVars
    /\ UNCHANGED reqVars

\* client disconnect or server shutdown while the generator is suspended at line 93
\* (CancelledError) or at line 96 (GeneratorExit): the finally block runs
Cancel(s) ==
    /\ pc[s] \in {"reading", "yielded"}
    /\ cancels' = [cancels EXCEPT ![s] = @ + 1]
    /\ RunGuard(s, "cancel")
    /\ UNCHANGED <<proc, script, canRun, body, delivered, reads>>
    /\ UNCHANGED <<cstate, outOpen, written, rpos, errFill, stdinRecv, nextPid>>
    /\ UNCHANGED resVars
    /\ UNCHANGED reqVars

\* a cancellation delivered at line 101: CancelledError leaves the finally block,
\* the await of process.wait() is abandoned
CancelWait(s) ==
    /\ pc[s] = "waiting"
    /\ pc' = [pc EXCEPT ![s] = "done"]
    /\ cancels' = [cancels EXCEPT ![s] = @ + 1]
    /\ UNCHANGED <<how, proc, script, canRun, body, delivered, reads, guard, termAt>>
    /\ UNCHANGED childVars
    /\ UNCHANGED resVars
    /\ UNCHANGED reqVars

\* line 101: process.wait() returns once the returncode is set
WaitDone(s) ==
    /\ pc[s] = "waiting"
    /\ ReturnCode(Handle(s)) = "set"
    /\ pc' = [pc EXCEPT ![s] = "done"]
    /\ guard' = [guard EXCEPT ![s] = Append(@, "waited")]
    /\ UNCHANGED <<how, proc, script, canRun, body, delivered, reads, termAt, cancels>>
    /\ UNCHANGED childVars
    /\ UNCHANGED resVars
    /\ UNCHANGED reqVars

\* ------------------------------------------------------------------ the child
\* the child is runnable: alive and not blocked in a write to the full stderr pipe
Runnable(p) == cstate[p] = "running" /\ errFill[p] <= StderrCap

\* the session that spawned pid p
Owner(p) == CHOOSE s \in Sessions : proc[s] = p

\* the child writes its next line to stdout (stdout=PIPE, line 84); node without its
\* script writes nothing there
ChildWrite(p) ==
    /\ Runnable(p)
    /\ outOpen[p]
    /\ script[Owner(p)]
    /\ Len(written[p]) < MaxLines
    /\ written' = [written EXCEPT ![p] = Append(@, <<p, Len(@) + 1>>)]
    /\ UNCHANGED <<cstate, outOpen, rpos, errFill, stdinRecv, sigs, nextPid>>
    /\ UNCHANGED sessVars
    /\ UNCHANGED resVars
    /\ UNCHANGED reqVars

\* the child writes to stderr (stderr=PIPE, line 85), which nothing reads: the pipe
\* fills, and the write that finds it full blocks
ChildWriteErr(p) ==
    /\ Runnable(p)
    /\ errFill' = [errFill EXCEPT ![p] = @ + 1]
    /\ UNCHANGED <<cstate, outOpen, written, rpos, stdinRecv, sigs, nextPid>>
    /\ UNCHANGED sessVars
    /\ UNCHANGED resVars
    /\ UNCHANGED reqVars

\* the child closes its stdout and keeps running
ChildCloseOut(p) ==
    /\ Runnable(p)
    /\ outOpen[p]
    /\ outOpen' = [outOpen EXCEPT ![p] = FALSE]
    /\ UNCHANGED <<cstate, written, rpos, errFill, stdinRecv, sigs, nextPid>>
    /\ UNCHANGED sessVars
    /\ UNCHANGED resVars
    /\ UNCHANGED reqVars

\* the child exits (by itself, by the SIGTERM of line 100, or killed from outside):
\* its pipes close; the loop has not yet collected the exit status
ChildExit(p) ==
    /\ cstate[p] = "running"
    /\ cstate' = [cstate EXCEPT ![p] = "zombie"]
    /\ outOpen' = [outOpen EXCEPT ![p] = FALSE]
    /\ UNCHANGED <<written, rpos, errFill, stdinRecv, sigs, nextPid>>
    /\ UNCHANGED sessVars
    /\ UNCHANGED resVars
    /\ UNCHANGED reqVars

\* the loop's child watcher collects the exit status: returncode is set
LoopReap(p) ==
    /\ cstate[p] = "zombie"
    /\ cstate' = [cstate EXCEPT ![p] = "reaped"]
    /\ UNCHANGED <<outOpen, written, rpos, errFill, stdinRecv, sigs, nextPid>>
    /\ UNCHANGED sessVars
    /\ UNCHANGED resVars
    /\ UNCHANGED reqVars

\* ------------------------------------------------------------------ specification
HandlerStep(s) ==
    \/ Accept(s)
    \/ Start(s)
    \/ ReadLine(s)
    \/ ReadEOF(s)
    \/ ReadFail(s)
    \/ Resume(s)
    \/ CancelUnstarted(s)
    \/ Cancel(s)
    \/ CancelWait(s)
    \/ WaitDone(s)

ChildStep(p) ==
    \/ ChildWrite(p)
    \/ ChildWriteErr(p)
    \/ ChildCloseOut(p)
    \/ ChildExit(p)
    \/ LoopReap(p)

Next ==
    \/ \E s \in Sessions : HandlerStep(s)
    \/ \E p \in Pids : ChildStep(p)

Spec == Init /\ [][Next]_vars

\* ------------------------------------------------- specification of the resolution
\* lines 60-68 applied to one file system: whether the default path exists and,
\* for each entry of sys.path, whether it holds cli.js
ResolveInit ==
    /\ SessInit
    /\ ChildInit
    /\ ReqInit
    /\ fsDefault \in BOOLEAN
    /\ fsDirs \in DirLists
    /\ rPc = "start"
    /\ rCli = DefaultPath

Resolve ==
    /\ rPc = "start"
    /\ rCli' = ResolveCli(fsDefault, fsDirs)
    /\ rPc' = "done"
    /\ UNCHANGED <<fsDefault, fsDirs>>
    /\ UNCHANGED sessVars
    /\ UNCHANGED childVars
    /\ UNCHANGED reqVars

ResolveSpec == ResolveInit /\ [][Resolve]_vars

\* ---------------------------------------------------- specification of the routing
\* the requests clients send: a verb and a path
Verbs == {"GET", "POST", "DELETE"}
Paths == {"/", "/health", "/mcp/sse", "/api/mcp/"}

\* the route decorators of lines 39, 45, 113-114 and 124-125: verb, path, endpoint
Routes ==
    { <<"GET", "/", "serve_index">>,
      <<"GET", "/health", "health">>,
      <<"GET", "/mcp/sse", "mcp_sse_endpoint">>,
      <<"POST", "/mcp/sse", "mcp_sse_endpoint">>,
      <<"GET", "/api/mcp/", "mcp_api_endpoint">>,
      <<"POST", "/api/mcp/", "mcp_api_endpoint">> }

\* the endpoint function the router calls for a request, "none" if no route matches
Endpoint(verb, path) ==
    IF \E r \in Routes : r[1] = verb /\ r[2] = path
    THEN (CHOOSE r \in Routes : r[1] = verb /\ r[2] = path)[3]
    ELSE "none"

\* lines 121 and 130: the endpoints whose body is `return await handle_sse_connection(request)`
Streams(endpoint) == endpoint \in {"mcp_sse_endpoint", "mcp_api_endpoint"}

\* a request for verb and path is routed to a streaming endpoint and handled up to the
\* return of the StreamingResponse; the command line built and the spawn are recorded
Request(s, verb, path) ==
    /\ Streams(Endpoint(verb, path))
    /\ pc[s] = "idle"
    /\ \A t \in Sessions : t < s => pc[t] # "idle"
    /\ \E de \in BOOLEAN, dirs \in DirLists, runnable \in SUBSET {"node"}, b \in Bodies :
         /\ Launch(s, de, dirs, runnable, b)
         /\ cliPath' = [cliPath EXCEPT ![s] = ResolveCli(de, dirs)]
         /\ argv' = [argv EXCEPT ![s] = Cmd(ResolveCli(de, dirs))]
    /\ req' = [req EXCEPT ![s] = <<verb, path>>]
    /\ spawns' = [spawns EXCEPT ![s] = @ + 1]
    /\ UNCHANGED health
    /\ UNCHANGED resVars

\* the sessions whose handling task is under way
ActiveSessions == {s \in Sessions : pc[s] \in {"created", "reading", "yielded", "waiting"}}

\* a liveness payload that tells whether sessions are under way
HealthByLoad ==
    [status |-> IF ActiveSessions = {} THEN "healthy" ELSE "busy",
     service |-> "playwright-mcp-server"]

\* line 48: the payload health() returns
HealthBody == [status |-> "healthy", service |-> "playwright-mcp-server"]

\* lines 45-48: a request routed to health() is answered; the reply is recorded with the
\* number of sessions under way at that moment
Health(verb, path) ==
    /\ Endpoint(verb, path) = "health"
    /\ health' = <<Cardinality(ActiveSessions), HealthBody>>
    /\ UNCHANGED <<req, cliPath, argv, spawns>>
    /\ UNCHANGED sessVars
    /\ UNCHANGED childVars
    /\ UNCHANGED resVars

\* requests arrive on any verb and path; the body of a session they create starts to
\* be iterated, or the session is abandoned before that
RouteNext ==
    \/ \E s \in Sessions, verb \in Verbs, path \in Paths : Request(s, verb, path)
    \/ \E verb \in Verbs, path \in Paths : Health(verb, path)
    \/ \E s \in Sessions : Start(s) \/ CancelUnstarted(s)

RouteSpec == Init /\ [][RouteNext]_vars

\* ------------------------------------------------------------------ claims

\* the sys.path entries that hold cli.js
Holding == {i \in 1..Len(fsDirs) : fsDirs[i]}

\* C6: the resolved path is the default path if it exists; otherwise dir/cli.js for
\* the first sys.path entry holding cli.js; otherwise (no entry holds it) the default path.
C6_Resolution ==
    rPc = "done" =>
        /\ fsDefault => rCli = DefaultPath
        /\ (~fsDefault /\ Holding # {}) =>
              \E i \in Holding : /\ rCli = DirPath(i)
                                 /\ \A j \in Holding : i <= j
        /\ (~fsDefault /\ Holding = {}) => rCli = DefaultPath

\* default path absent, sys.path [d1, d2, d3] with cli.js in d2 and d3 but not in d1:
\* the resolved path is d2/cli.js
C6_Witness ==
    /\ rPc = "done"
    /\ ~fsDefault
    /\ fsDirs = <<FALSE, TRUE, TRUE>>
    /\ rCli = DirPath(2)

\* the relay of session s was started and has ended: the finally block was entered
GuardEntered(s) == guard[s] # <<>>

\* the handling task of session s has finished
Finished(s) == pc[s] = "done"

\* C1: whichever way the relay ended (end-of-stream, read exception, cancellation),
\* the handling task does not finish before the exit status of the child it spawned
\* has been collected: no execution ends with a spawned child that was not reaped.
C1_ReapedOnEveryExit ==
    \A s \in Sessions :
        (Finished(s) /\ GuardEntered(s)) => cstate[proc[s]] = "reaped"

\* C2: a task cancelled in its first read of stdout with the child still unreaped runs
\* the guard in full before it finishes: terminate, then the completed await of the exit,
\* also when the cancellation is delivered again during that await.
C2_GuardRunsInFullWhenCancelled ==
    \A s \in Sessions :
        (Finished(s) /\ how[s] = "cancel" /\ delivered[s] = <<>> /\ GuardEntered(s)
           /\ guard[s][1] = "check_none")
        => guard[s] = <<"check_none", "terminate", "wait", "waited">>

\* the guard's possible step sequences: a prefix-closed order, each step at most once
GuardOrders ==
    { <<>>,
      <<"check_exited">>,
      <<"check_none", "terminate", "wait">>,
      <<"check_none", "terminate", "wait", "waited">> }

\* C3: the guard's steps run in a fixed order, once per session: the check first,
\* terminate only after a check that found no returncode, the await of the exit after
\* terminate.  A child gets at most one signal, only from terminate() called while it
\* was running; a child that had exited when the guard ran is never signalled.
C3_GuardOrder ==
    /\ \A s \in Sessions : guard[s] \in GuardOrders
    /\ \A s \in Sessions :
          /\ termAt[s] # "" <=> (Len(guard[s]) >= 2 /\ guard[s][2] = "terminate")
          /\ termAt[s] \in {"", "running", "zombie"}
          /\ proc[s] # NoPid => sigs[proc[s]] = (IF termAt[s] = "running" THEN 1 ELSE 0)
    /\ \A p \in Pids : (\A s \in Sessions : proc[s] # p) => sigs[p] = 0

\* a guard that found the child exited, and one that signalled and awaited it
C3_Witness ==
    /\ guard[1] = <<"check_exited">>
    /\ guard[2] = <<"check_none", "terminate", "wait", "waited">>
    /\ sigs[proc[2]] = 1

\* q is a prefix of w
IsPrefix(q, w) == Len(q) <= Len(w) /\ q = SubSeq(w, 1, Len(q))

\* C4: in every state and for every session, the chunks handed to the response are a
\* prefix of the lines its own child wrote to stdout; a session without a child has none.
C4_ChunksArePrefix ==
    \A s \in Sessions :
        IF proc[s] = NoPid THEN delivered[s] = <<>>
        ELSE IsPrefix(delivered[s], written[proc[s]])

\* two sessions streaming at once, each having delivered both lines of its own child
C4_Witness ==
    /\ Len(delivered[1]) >= 2
    /\ Len(delivered[2]) >= 2
    /\ pc[1] = "yielded"
    /\ pc[2] = "yielded"

\* nothing that belongs to the child with pid p changes in the step
ChildSame(p) ==
    \/ p = NoPid
    \/ /\ cstate'[p] = cstate[p]
       /\ outOpen'[p] = outOpen[p]
       /\ written'[p] = written[p]
       /\ rpos'[p] = rpos[p]
       /\ errFill'[p] = errFill[p]
       /\ stdinRecv'[p] = stdinRecv[p]
       /\ sigs'[p] = sigs[p]

\* nothing that belongs to session b changes in the step: its task, its chunks, its
\* handle and its child
SessionSame(b) ==
    /\ pc'[b] = pc[b]
    /\ how'[b] = how[b]
    /\ proc'[b] = proc[b]
    /\ delivered'[b] = delivered[b]
    /\ reads'[b] = reads[b]
    /\ guard'[b] = guard[b]
    /\ termAt'[b] = termAt[b]
    /\ cancels'[b] = cancels[b]
    /\ ChildSame(proc[b])

\* a step of session a: a step of its handling task or of the child it spawned
StepOf(a) == HandlerStep(a) \/ (proc[a] # NoPid /\ ChildStep(proc[a]))

\* C5, state part: no two sessions hold the same process handle, and a new request can
\* still be accepted after another session has failed or ended.
C5_DistinctHandles ==
    /\ \A a, b \in Sessions : (a # b /\ proc[a] # NoPid) => proc[a] # proc[b]
    /\ \A a, b \in Sessions :
          (a # b /\ pc[a] \in {"error", "done"} /\ pc[b] = "idle") => ENABLED Accept(b)

\* C5, step part: a step of session a (spawn failure, read, read failure, guard,
\* disconnect, its child writing, exiting or being killed) changes nothing of session b.
C5_StepIsolated ==
    \A a, b \in Sessions :
        \/ a = b
        \/ SessionSame(b)
        \/ ~StepOf(a)

\* C5: sessions are isolated from one another.
C5_Isolation == []C5_DistinctHandles /\ [][C5_StepIsolated]_vars

\* session 1 ended by a read failure, its signalled child dead and reaped, while
\* session 2 goes on streaming from its own child
C5_Witness ==
    /\ pc[1] = "done"
    /\ how[1] = "error"
    /\ sigs[proc[1]] = 1
    /\ cstate[proc[1]] = "reaped"
    /\ pc[2] = "yielded"
    /\ proc[2] # NoPid
    /\ cstate[proc[2]] = "running"
    /\ Len(delivered[2]) >= 2

\* the request of session s has been handled up to the spawn
Accepted(s) == pc[s] # "idle"

C8_DisconnectTerminatesAndReaps ==
    \A s \in Sessions :
        (how[s] = "cancel" /\ Len(delivered[s]) >= 1 /\ termAt[s] = "running") =>
            /\ reads[s] = Len(delivered[s])
            /\ sigs[proc[s]] = 1
            /\ Finished(s) => (cstate[proc[s]] = "reaped" /\ guard[s][Len(guard[s])] = "waited")

\* C9: with the client connected throughout, a child that wrote n lines and closed its
\* stdout has had exactly those n lines delivered, in order, when the stream has ended;
\* the empty read ended the loop (n + 1 reads, none after it, the empty one not
\* forwarded) and the child has been reaped.
C9_AllLinesThenEnd ==
    \A s \in Sessions :
        (how[s] = "eof" /\ cancels[s] = 0) =>
            /\ delivered[s] = written[proc[s]]
            /\ reads[s] = Len(written[proc[s]]) + 1
            /\ rpos[proc[s]] = Len(written[proc[s]])
            /\ ~outOpen[proc[s]]
            /\ Finished(s) => cstate[proc[s]] = "reaped"

\* a child that wrote two lines, closed stdout and kept running: both delivered, the
\* stream ended, the child signalled and reaped
C9_Witness ==
    \E s \in Sessions :
        /\ Finished(s)
        /\ how[s] = "eof"
        /\ cancels[s] = 0
        /\ Len(delivered[s]) >= 2
        /\ termAt[s] = "running"
        /\ cstate[proc[s]] = "reaped"

\* C10: the bytes of the request body have been written to the stdin of the session's
\* child by the time a stream that ran to its end-of-stream, client connected, is over.
C10_BodyRelayedToStdin ==
    \A s \in Sessions :
        (Finished(s) /\ how[s] = "eof" /\ cancels[s] = 0) => stdinRecv[proc[s]] = body[s]

\* the four verb/path combinations of the streaming routes
StreamRoutes == {"GET", "POST"} \X {"/mcp/sse", "/api/mcp/"}

\* the command line of lines 72-79 around the path c
FixedCmd(c) == <<"node", c, "--headless", "--browser", "chromium", "--no-sandbox", "--port", "0">>

\* what handling a request on route r as session s can lead to: spawned or failed, and
\* the path resolved; empty if the request cannot be accepted
Outcomes(s, r) ==
    {o \in {"created", "error"} \X (0..MaxDirs) :
        ENABLED (Request(s, r[1], r[2]) /\ pc'[s] = o[1] /\ cliPath'[s] = DirPath(o[2]))}

\* C11: /mcp/sse and /api/mcp/ each accept GET and POST; a request on any of the four
\* combinations can be accepted whenever a request can, with the same possible outcomes
\* (spawned or failed, for every resolved path); every accepted request has made
\* exactly one spawn attempt, with the command line node, resolved path, --headless,
\* --browser chromium, --no-sandbox, --port 0; the children ever spawned are never more
\* than the accepted requests.
C11_OneSpawnPerRequest ==
    /\ \A r \in StreamRoutes : Streams(Endpoint(r[1], r[2]))
    /\ \A s \in Sessions :
          IF pc[s] = "idle"
          THEN /\ req[s] = <<>> /\ spawns[s] = 0 /\ argv[s] = <<>>
               /\ (\A t \in Sessions : t < s => pc[t] # "idle")
                     => LET base == Outcomes(s, <<"GET", "/mcp/sse">>)
                        IN  /\ base # {}
                            /\ \A r \in StreamRoutes : Outcomes(s, r) = base
          ELSE /\ req[s] \in StreamRoutes
               /\ spawns[s] = 1
               /\ argv[s] = FixedCmd(cliPath[s])
               /\ proc[s] # NoPid <=> pc[s] # "error"
    /\ nextPid - 1 <= Cardinality({s \in Sessions : pc[s] # "idle"})
    /\ nextPid - 1 = Cardinality({p \in Pids : cstate[p] # "none"})

\* a GET on /mcp/sse and a POST on /api/mcp/ were accepted, each spawned one child with
\* the fixed command line around its own resolved path
C11_Witness ==
    /\ req[1] = <<"GET", "/mcp/sse">>
    /\ req[2] = <<"POST", "/api/mcp/">>
    /\ argv[1] = FixedCmd(DefaultPath)
    /\ argv[2] = FixedCmd(DirPath(2))
    /\ spawns[1] = 1
    /\ spawns[2] = 1
    /\ nextPid = 3

\* the liveness payload
FixedPayload == [status |-> "healthy", service |-> "playwright-mcp-server"]

\* C12, state part: in every state a GET /health can be answered, and every reply given,
\* with none, one or two sessions under way, is the fixed payload.
C12_SamePayload ==
    /\ ENABLED Health("GET", "/health")
    /\ health # <<>> => health[2] = FixedPayload

\* C12, step part: a step in which /health replies spawns no process and changes no
\* session's state and no child's.
C12_NoEffect ==
    health' # health =>
        /\ nextPid' = nextPid
        /\ spawns' = spawns
        /\ UNCHANGED sessVars
        /\ UNCHANGED childVars
        /\ UNCHANGED <<req, cliPath, argv>>

\* C12: GET /health returns the fixed payload in every state and has no effect on the
\* sessions.
C12_HealthFixedAndInert == []C12_SamePayload /\ [][C12_NoEffect]_vars

\* /health replied while two sessions were under way, one of them streaming
C12_Witness ==
    /\ health = <<2, FixedPayload>>
    /\ pc[1] = "reading"
    /\ pc[2] = "created"
    /\ nextPid = 3

\* the exit state named by the way the relay loop was left
ExitState(h) ==
    CASE h = "eof" -> "COMPLETED"
      [] h = "error" -> "FAILED"
      [] h = "cancel" -> "CANCELLED"
      [] OTHER -> "STREAMING"

\* the finally block of session s ran to its end
GuardComplete(s) ==
    /\ guard[s] # <<>>
    /\ guard[s][Len(guard[s])] \in {"waited", "check_exited"}

\* the state of session s in the life cycle CREATED, SPAWNED, STREAMING, COMPLETED,
\* FAILED, CANCELLED, REAPED: before the spawn (or the spawn failed), process created and
\* generator not started, in the relay loop, loop left and guard not finished, guard
\* finished
SessionState(s) ==
    CASE pc[s] \in {"idle", "error"} -> "CREATED"
      [] pc[s] = "created" -> "SPAWNED"
      [] pc[s] \in {"reading", "yielded"} -> "STREAMING"
      [] pc[s] = "waiting" -> ExitState(how[s])
      [] OTHER -> IF GuardComplete(s) THEN "REAPED" ELSE ExitState(how[s])

\* the moves of the life cycle; the guard that finds the child already collected
\* finishes in the step in which the loop is left
LifeCycle ==
    { <<"CREATED", "SPAWNED">>, <<"SPAWNED", "STREAMING">>,
      <<"STREAMING", "COMPLETED">>, <<"STREAMING", "FAILED">>, <<"STREAMING", "CANCELLED">>,
      <<"COMPLETED", "REAPED">>, <<"FAILED", "REAPED">>, <<"CANCELLED", "REAPED">>,
      <<"STREAMING", "REAPED">> }

\* the step changes the state of session s along the life cycle or not at all, and
\* nothing is read, delivered, signalled or awaited for a session that is REAPED
C13_Step(s) ==
    /\ \/ SessionState(s)' = SessionState(s)
       \/ <<SessionState(s), SessionState(s)'>> \in LifeCycle
    /\ SessionState(s) = "REAPED" =>
          /\ SessionState(s)' = "REAPED"
          /\ reads'[s] = reads[s]
          /\ delivered'[s] = delivered[s]
          /\ guard'[s] = guard[s]
          /\ sigs'[proc[s]] = sigs[proc[s]]

\* C13: each session only moves along CREATED -> SPAWNED -> STREAMING -> one of
\* COMPLETED, FAILED, CANCELLED -> REAPED; no other transition occurs, and a session
\* that is REAPED never changes again.
C13_OnlyLifeCycleMoves == [][\A s \in Sessions : C13_Step(s)]_vars

\* C16: a request cancelled once, before any line was read (the generator never started
\* included), does not finish with its spawned child outside the guard: the guard was
\* entered, a child running then was sent the termination signal, and the child is reaped.
C16_UnstartedRelayIsGuarded ==
    \A s \in Sessions :
        (Finished(s) /\ proc[s] # NoPid /\ how[s] = "cancel" /\ cancels[s] = 1
           /\ reads[s] = 0) =>
            /\ GuardEntered(s)
            /\ termAt[s] = "running" => sigs[proc[s]] = 1
            /\ cstate[proc[s]] = "reaped"

\* session s is streaming from a child that is alive, holds its stdout open and has
\* written nothing that was not read: the relay is suspended in readline
Silent(s) ==
    /\ pc[s] = "reading"
    /\ cstate[proc[s]] = "running"
    /\ outOpen[proc[s]]
    /\ rpos[proc[s]] = Len(written[proc[s]])

\* the steps the handling task of s takes without a disconnect or a failed read
OwnStep(s) ==
    \/ Start(s)
    \/ ReadLine(s)
    \/ ReadEOF(s)
    \/ Resume(s)
    \/ WaitDone(s)

\* C14: while a session is spawned or streaming no termination signal has been sent to
\* its child and the guard has not been entered; a child that was signalled belongs to
\* a session whose relay ended by end-of-stream, read exception or cancellation; and a
\* session streaming from a silent, alive child has no step of its own to take: only a
\* disconnect or a failed read ends its wait, there is no timeout.
C14_NoTerminationWhileStreaming ==
    \A s \in Sessions :
        /\ pc[s] \in {"created", "reading", "yielded"} =>
              /\ how[s] = "none"
              /\ guard[s] = <<>>
              /\ termAt[s] = ""
              /\ sigs[proc[s]] = 0
        /\ (proc[s] # NoPid /\ sigs[proc[s]] > 0) =>
              /\ how[s] \in {"eof", "error", "cancel"}
              /\ pc[s] \in {"waiting", "done"}
              /\ GuardEntered(s)
        /\ Silent(s) => ~ENABLED OwnStep(s)

\* session 1 waits on a child that has been silent from the start, while the child of
\* session 2 was signalled after its stream had ended
C14_Witness ==
    /\ Silent(1)
    /\ written[proc[1]] = <<>>
    /\ how[2] = "eof"
    /\ sigs[proc[2]] = 1
    /\ Len(delivered[2]) >= 2

\* the lines the relay of session s has read from its child's stdout
LinesRead(s) == rpos[proc[s]]

\* C15: in every state the lines the relay has read from its child are at most one more
\* than the chunks handed to the response, every read but the empty one that ends the
\* stream gave a line, and while the response holds a chunk the relay makes no read,
\* lines waiting in the pipe or not: it keeps no queue.
C15_DemandDriven ==
    \A s \in Sessions :
        proc[s] # NoPid =>
            /\ LinesRead(s) - Len(delivered[s]) \in {0, 1}
            /\ reads[s] - LinesRead(s) = (IF how[s] = "eof" THEN 1 ELSE 0)
            /\ pc[s] = "yielded" =>
                  /\ Len(delivered[s]) = LinesRead(s)
                  /\ ~ENABLED ReadLine(s)
                  /\ ~ENABLED ReadEOF(s)

\* the response holds the first chunk while the second line waits unread in the pipe
C15_Witness ==
    \E s \in Sessions :
        /\ pc[s] = "yielded"
        /\ Len(delivered[s]) = 1
        /\ LinesRead(s) = 1
        /\ Len(written[proc[s]]) = 2

\* the steps the child with pid p takes by itself
ChildOwnStep(p) ==
    \/ ChildWrite(p)
    \/ ChildWriteErr(p)
    \/ ChildCloseOut(p)

\* session s is stalled on stderr: client connected, child alive with its stdout open,
\* having written to stdout and with more to write, blocked in a write to the full
\* stderr pipe; the relay is suspended in readline with nothing to read, and neither
\* the relay nor the child has a step to take
StalledOnStderr(s) ==
    /\ pc[s] = "reading"
    /\ cancels[s] = 0
    /\ script[s]
    /\ Len(written[proc[s]]) \in 1..(MaxLines - 1)
    /\ delivered[s] = written[proc[s]]
    /\ cstate[proc[s]] = "running"
    /\ outOpen[proc[s]]
    /\ errFill[proc[s]] > StderrCap
    /\ rpos[proc[s]] = Len(written[proc[s]])
    /\ ~ENABLED OwnStep(s)
    /\ ~ENABLED ChildOwnStep(proc[s])

\* C17: delivery of stdout does not depend on the child's stderr: no session whose
\* client stays connected and whose child is alive is ever stalled, its end-of-stream
\* out of reach, because the bounded stderr pipe is full.
C17_NoStallOnFullStderr == \A s \in Sessions : ~StalledOnStderr(s)

====
